---- MODULE Spec2Model ----
(***************************************************************************)
(* Model of crates/cli/src/parse/source.rs: parse_source builds a Source   *)
(* (provider, chain id, rate limiter, semaphore, two scalars) from the     *)
(* command-line Args, after parse_rpc_url resolved the endpoint from       *)
(* args.rpc or the ETH_RPC_URL environment variable.                       *)
(*                                                                         *)
(* Strings that the code inspects (the endpoint) are sequences of          *)
(* one-character strings; fixed messages are TLA+ strings.  Option<T> is   *)
(* a tagged record.  A local of parse_source that has not been assigned    *)
(* yet holds Unset.                                                        *)
(***************************************************************************)
EXTENDS Naturals, Sequences, FiniteSets, TLC

\* ------------------------------------------------------------- bounds ----
\* Numeric arguments range over 0..MaxArg.
MaxArg == 2
\* parse_source is called at most MaxCalls times in one process.
MaxCalls == 2

\* ---------------------------------------------------------- constants ----
EXPECTED_CHAIN_ID == 11155111
DefaultMaxConcurrentRequests == 100
DefaultMaxConcurrentChunks == 3

\* ------------------------------------------------------------- values ----
None == [tag |-> "None"]
Some(v) == [tag |-> "Some", val |-> v]
Unset == [tag |-> "Unset"]
IsSome(o) == o.tag = "Some"

ConnectMsg == "could not connect to provider"
NoRpcMsg == "must provide --rpc or set ETH_RPC_URL"
OverflowMsg == "Integer overflow when casting to u64"

HttpPrefix == <<"h", "t", "t", "p">>
HttpScheme == <<"h", "t", "t", "p", ":", "/", "/">>
HttpsScheme == <<"h", "t", "t", "p", "s", ":", "/", "/">>

\* Endpoint strings: one without a scheme (the test's "invalid_rpc"), one
\* with each HTTP scheme, and a host name that happens to start with the
\* letters "http".
UrlInvalidRpc == <<"i", "n", "v", "a", "l", "i", "d", "_", "r", "p", "c">>
UrlHttp == <<"h", "t", "t", "p", ":", "/", "/", "a">>
UrlHttps == <<"h", "t", "t", "p", "s", ":", "/", "/", "a">>
UrlHttpHost == <<"h", "t", "t", "p", "n", "o", "d", "e">>
UrlNode == <<"n", "o", "d", "e">>

RpcArgs == {None} \cup {Some(u) : u \in {UrlInvalidRpc, UrlHttp, UrlHttps, UrlHttpHost}}
EnvValues == {None} \cup {Some(u) : u \in {UrlNode, UrlHttps}}
OptNums == {None} \cup {Some(n) : n \in 0..MaxArg}

\* A U256 as the network reports it: lo is the low 64-bit word, hi is
\* nonzero exactly when some higher word is.
ChainReplies == {[tag |-> "Err"]} \cup
                {[tag |-> "Ok", val |-> [lo |-> l, hi |-> h]] :
                    l \in {1, EXPECTED_CHAIN_ID}, h \in {0, 1}}

\* -------------------------------------------------------------- state ----
VARIABLES
    args,                    \* the Args of the process
    env,                     \* ETH_RPC_URL: None (unset) or Some(string)
    pc,                      \* where parse_source is, or how the call ended
    calls,                   \* calls of parse_source started so far
    rpc_url,                 \* locals of parse_source
    provider,
    chain_id,
    rate_limiter,
    max_concurrent_requests,
    max_concurrent_chunks,
    semaphore,
    result,                  \* what the caller received: Unset, Ok(Source), Err
    stdout,                  \* lines printed
    exit_code,               \* Some(code) once the process exited
    panic_msg,               \* Some(message) once the call panicked
    chain_reply,             \* the reply to this call's chain-id query
    clients,                 \* transport clients constructed in this call
    queries,                 \* chain-id queries issued in this call
    resolved_log             \* per finished resolution: the env read and the outcome

vars == <<args, env, pc, calls, rpc_url, provider, chain_id, rate_limiter,
          max_concurrent_requests, max_concurrent_chunks, semaphore, result,
          stdout, exit_code, panic_msg, chain_reply, clients, queries,
          resolved_log>>

locals == <<rpc_url, provider, chain_id, rate_limiter, max_concurrent_requests,
            max_concurrent_chunks, semaphore>>

outcome == <<result, stdout, exit_code, panic_msg>>

\* ------------------------------------------------------ pure functions ----
StartsWith(s, p) == Len(s) >= Len(p) /\ SubSeq(s, 1, Len(p)) = p

\* Variant of parse_rpc_url that consults ETH_RPC_URL before args.rpc.
parse_rpc_url_EnvFirst(rpc, envvar) ==
    LET found == IF IsSome(envvar) THEN envvar ELSE rpc
    IN  IF ~IsSome(found)
        THEN [tag |-> "Exit"]
        ELSE [tag |-> "Url",
              url |-> IF ~StartsWith(found.val, HttpPrefix)
                      THEN HttpScheme \o found.val
                      ELSE found.val]

\* Variant of parse_rpc_url that falls back to a default endpoint instead
\* of ending the process.
parse_rpc_url_DefaultEndpoint(rpc, envvar) ==
    LET found == IF IsSome(rpc) THEN rpc
                 ELSE IF IsSome(envvar) THEN envvar
                 ELSE Some(UrlNode)
    IN  [tag |-> "Url",
         url |-> IF ~StartsWith(found.val, HttpPrefix)
                 THEN HttpScheme \o found.val
                 ELSE found.val]

\* parse_rpc_url: Exit when neither source gives a string, else the URL.
parse_rpc_url(rpc, envvar) ==
    LET found == IF IsSome(rpc) THEN rpc ELSE envvar
    IN  IF ~IsSome(found)
        THEN [tag |-> "Exit"]
        ELSE [tag |-> "Url",
              url |-> IF ~StartsWith(found.val, HttpPrefix)
                      THEN HttpScheme \o found.val
                      ELSE found.val]

\* NonZeroU32::new
NonZeroU32_new(n) == IF n = 0 THEN None ELSE Some(n)

\* Variant of BuildRateLimiter that builds a limiter for a zero rate too.
BuildRateLimiter_AcceptsZero(rps) ==
    IF IsSome(rps) THEN Some([per_second |-> rps.val]) ELSE None

\* The rate limiter built from args.requests_per_second: None, or
\* Some(limiter) identified by the quota per second it was built with.
BuildRateLimiter(rps) ==
    IF IsSome(rps)
    THEN LET value == NonZeroU32_new(rps.val)
         IN  IF IsSome(value) THEN Some([per_second |-> value.val]) ELSE None
    ELSE None

unwrap_or(o, d) == IF IsSome(o) THEN o.val ELSE d

\* Variant of ResolveMaxConcurrentRequests that defaults to the chunk default.
ResolveMaxConcurrentRequests_ChunkDefault(a) ==
    unwrap_or(a.max_concurrent_requests, DefaultMaxConcurrentChunks)

ResolveMaxConcurrentRequests(a) ==
    unwrap_or(a.max_concurrent_requests, DefaultMaxConcurrentRequests)

\* Variant of ResolveMaxConcurrentChunks that caps the chunks at the number
\* of concurrent requests.
ResolveMaxConcurrentChunks_Clamped(a) ==
    LET c == unwrap_or(a.max_concurrent_chunks, DefaultMaxConcurrentChunks)
        r == unwrap_or(a.max_concurrent_requests, DefaultMaxConcurrentRequests)
    IN  IF c > r THEN r ELSE c

ResolveMaxConcurrentChunks(a) ==
    unwrap_or(a.max_concurrent_chunks, DefaultMaxConcurrentChunks)

\* `as usize`: value-preserving for every value the model draws (all are
\* below 2^31).
AsUsize(n) == n

\* tokio::sync::Semaphore::new(n), wrapped in Some(Arc::new(..))
BuildSemaphore(n) == Some([permits |-> AsUsize(n)])

\* U256::as_u64: the low word when the value fits in 64 bits, else a panic.
as_u64(u) == IF u.hi = 0 THEN [tag |-> "Ok", val |-> u.lo] ELSE [tag |-> "Panic"]

ErrConnect == [tag |-> "Err", msg |-> ConnectMsg]

MakeSource(p, c, s, r, i, m) ==
    [provider |-> p, chain_id |-> c, semaphore |-> s, rate_limiter |-> r,
     inner_request_size |-> i, max_concurrent_chunks |-> m]

\* --------------------------------------------------------------- Init ----
Init ==
    /\ args \in [rpc : RpcArgs,
                 requests_per_second : OptNums,
                 max_concurrent_requests : OptNums,
                 max_concurrent_chunks : OptNums,
                 inner_request_size : 0..MaxArg]
    /\ env \in EnvValues
    /\ pc = "idle"
    /\ calls = 0
    /\ rpc_url = Unset
    /\ provider = Unset
    /\ chain_id = Unset
    /\ rate_limiter = Unset
    /\ max_concurrent_requests = Unset
    /\ max_concurrent_chunks = Unset
    /\ semaphore = Unset
    /\ result = Unset
    /\ stdout = <<>>
    /\ exit_code = None
    /\ panic_msg = None
    /\ chain_reply = Unset
    /\ clients = 0
    /\ queries = 0
    /\ resolved_log = <<>>

\* ------------------------------------------------------------ actions ----
\* The caller (the tests) sets or removes ETH_RPC_URL between calls.
SetEnv ==
    /\ pc \in {"idle", "returned"}
    /\ \E v \in EnvValues : v # env /\ env' = v
    /\ UNCHANGED <<args, pc, calls, locals, outcome, chain_reply, clients,
                   queries, resolved_log>>

\* The caller calls parse_source(&args); an earlier call's result is dropped.
Call ==
    /\ pc \in {"idle", "returned"}
    /\ calls < MaxCalls
    /\ calls' = calls + 1
    /\ pc' = "parse_rpc_url"
    /\ rpc_url' = Unset
    /\ provider' = Unset
    /\ chain_id' = Unset
    /\ rate_limiter' = Unset
    /\ max_concurrent_requests' = Unset
    /\ max_concurrent_chunks' = Unset
    /\ semaphore' = Unset
    /\ result' = Unset
    /\ chain_reply' = Unset
    /\ clients' = 0
    /\ queries' = 0
    /\ UNCHANGED <<args, env, stdout, exit_code, panic_msg, resolved_log>>

\* let rpc_url = parse_rpc_url(args);
ResolveEndpoint ==
    /\ pc = "parse_rpc_url"
    /\ LET r == parse_rpc_url(args.rpc, env)
       IN  /\ resolved_log' = Append(resolved_log, [env |-> env, out |-> r])
           /\ IF r.tag = "Exit"
              THEN /\ stdout' = Append(stdout, NoRpcMsg)
                   /\ exit_code' = Some(0)
                   /\ pc' = "exited"
                   /\ UNCHANGED rpc_url
              ELSE /\ rpc_url' = Some(r.url)
                   /\ pc' = "new_client"
                   /\ UNCHANGED <<stdout, exit_code>>
    /\ UNCHANGED <<args, env, calls, provider, chain_id, rate_limiter,
                   max_concurrent_requests, max_concurrent_chunks, semaphore,
                   result, panic_msg, chain_reply, clients, queries>>

\* Provider::new_client(rpc_url.as_str(), 10, 500).map_err(..)?
\* Whether the transport accepts the URL is the library's decision.
NewClient ==
    /\ pc = "new_client"
    /\ \E ok \in BOOLEAN :
          IF ok
          THEN /\ provider' = Some([url |-> rpc_url.val])
               /\ clients' = clients + 1
               /\ pc' = "get_chainid"
               /\ UNCHANGED result
          ELSE /\ result' = ErrConnect
               /\ pc' = "returned"
               /\ UNCHANGED <<provider, clients>>
    /\ UNCHANGED <<args, env, calls, rpc_url, chain_id, rate_limiter,
                   max_concurrent_requests, max_concurrent_chunks, semaphore,
                   stdout, exit_code, panic_msg, chain_reply, queries,
                   resolved_log>>

\* Variant of GetChainId that queries a second time when the first query
\* fails.
GetChainId_Retry ==
    /\ pc = "get_chainid"
    /\ \E reply \in ChainReplies :
          /\ chain_reply' = reply
          /\ queries' = queries + 1
          /\ IF reply.tag = "Err"
             THEN IF queries = 0
                  THEN /\ pc' = "get_chainid"
                       /\ UNCHANGED <<chain_id, panic_msg, result>>
                  ELSE /\ result' = ErrConnect
                       /\ pc' = "returned"
                       /\ UNCHANGED <<chain_id, panic_msg>>
             ELSE LET c == as_u64(reply.val)
                  IN  IF c.tag = "Panic"
                      THEN /\ panic_msg' = Some(OverflowMsg)
                           /\ pc' = "panicked"
                           /\ UNCHANGED <<chain_id, result>>
                      ELSE /\ chain_id' = Some(c.val)
                           /\ pc' = "rate_limiter"
                           /\ UNCHANGED <<result, panic_msg>>
    /\ UNCHANGED <<args, env, calls, rpc_url, provider, rate_limiter,
                   max_concurrent_requests, max_concurrent_chunks, semaphore,
                   stdout, exit_code, clients, resolved_log>>

\* provider.get_chainid().await.map_err(..)?.as_u64()
GetChainId ==
    /\ pc = "get_chainid"
    /\ \E reply \in ChainReplies :
          /\ chain_reply' = reply
          /\ queries' = queries + 1
          /\ IF reply.tag = "Err"
             THEN /\ result' = ErrConnect
                  /\ pc' = "returned"
                  /\ UNCHANGED <<chain_id, panic_msg>>
             ELSE LET c == as_u64(reply.val)
                  IN  IF c.tag = "Panic"
                      THEN /\ panic_msg' = Some(OverflowMsg)
                           /\ pc' = "panicked"
                           /\ UNCHANGED <<chain_id, result>>
                      ELSE /\ chain_id' = Some(c.val)
                           /\ pc' = "rate_limiter"
                           /\ UNCHANGED <<result, panic_msg>>
    /\ UNCHANGED <<args, env, calls, rpc_url, provider, rate_limiter,
                   max_concurrent_requests, max_concurrent_chunks, semaphore,
                   stdout, exit_code, clients, resolved_log>>

\* let rate_limiter = match args.requests_per_second { .. };
RateLimiterStep ==
    /\ pc = "rate_limiter"
    /\ rate_limiter' = BuildRateLimiter(args.requests_per_second)
    /\ pc' = "concurrency"
    /\ UNCHANGED <<args, env, calls, rpc_url, provider, chain_id,
                   max_concurrent_requests, max_concurrent_chunks, semaphore,
                   outcome, chain_reply, clients, queries, resolved_log>>

\* let max_concurrent_requests = ..; let max_concurrent_chunks = ..;
ConcurrencyStep ==
    /\ pc = "concurrency"
    /\ max_concurrent_requests' = Some(ResolveMaxConcurrentRequests(args))
    /\ max_concurrent_chunks' = Some(ResolveMaxConcurrentChunks(args))
    /\ pc' = "semaphore"
    /\ UNCHANGED <<args, env, calls, rpc_url, provider, chain_id, rate_limiter,
                   semaphore, outcome, chain_reply, clients, queries,
                   resolved_log>>

\* let semaphore = Some(Arc::new(Semaphore::new(max_concurrent_requests as usize)));
SemaphoreStep ==
    /\ pc = "semaphore"
    /\ semaphore' = BuildSemaphore(max_concurrent_requests.val)
    /\ pc' = "assemble"
    /\ UNCHANGED <<args, env, calls, rpc_url, provider, chain_id, rate_limiter,
                   max_concurrent_requests, max_concurrent_chunks, outcome,
                   chain_reply, clients, queries, resolved_log>>

\* let output = Source { .. }; Ok(output)
Assemble ==
    /\ pc = "assemble"
    /\ result' = [tag |-> "Ok",
                  source |-> MakeSource(provider.val, chain_id.val, semaphore,
                                        rate_limiter, args.inner_request_size,
                                        max_concurrent_chunks.val)]
    /\ pc' = "returned"
    /\ UNCHANGED <<args, env, calls, locals, stdout, exit_code, panic_msg,
                   chain_reply, clients, queries, resolved_log>>

Next ==
    \/ SetEnv
    \/ Call
    \/ ResolveEndpoint
    \/ NewClient
    \/ GetChainId
    \/ RateLimiterStep
    \/ ConcurrencyStep
    \/ SemaphoreStep
    \/ Assemble

Spec == Init /\ [][Next]_vars

\* ------------------------------------------------------ claim helpers ----
\* The current call has resolved its endpoint (or exited trying).
Resolved == calls > 0 /\ Len(resolved_log) = calls
LastResolution == resolved_log[Len(resolved_log)]
\* Neither args.rpc nor ETH_RPC_URL gave a string when the current call
\* resolved its endpoint.
NoEndpoint == Resolved /\ ~IsSome(args.rpc) /\ ~IsSome(LastResolution.env)
Ended == pc \in {"returned", "exited", "panicked"}
Failed == pc \in {"exited", "panicked"} \/ result.tag = "Err"
ReturnedOk == pc = "returned" /\ result.tag = "Ok"

\* ----------------------------------------------------------------- C1 ----
\* C1: a returned Source has a rate limiter exactly when
\* args.requests_per_second is Some(N) with N > 0 (built with quota N);
\* Some(0) gives None like an absent value, and once the chain id has been
\* obtained the call cannot end in an error, whatever the rate is.
C1_RateLimiterIffPositive ==
    /\ result.tag = "Ok" =>
          /\ IsSome(result.source.rate_limiter) <=>
                (IsSome(args.requests_per_second) /\ args.requests_per_second.val > 0)
          /\ IsSome(result.source.rate_limiter) =>
                result.source.rate_limiter.val.per_second = args.requests_per_second.val
    /\ (IsSome(chain_id) /\ Ended) => ReturnedOk

C1_Witness ==
    /\ ReturnedOk
    /\ args.requests_per_second = Some(0)
    /\ result.source.rate_limiter = None

\* ----------------------------------------------------------------- C2 ----
\* C2: a returned Source always has a semaphore, with exactly M permits
\* when args.max_concurrent_requests is Some(M) and exactly 100 when None.
C2_SemaphorePermits ==
    result.tag = "Ok" =>
        /\ IsSome(result.source.semaphore)
        /\ result.source.semaphore.val.permits =
              IF IsSome(args.max_concurrent_requests)
              THEN args.max_concurrent_requests.val
              ELSE 100

C2_Witness ==
    /\ ReturnedOk
    /\ args.max_concurrent_requests = None
    /\ result.source.semaphore.val.permits = 100

\* ----------------------------------------------------------------- C3 ----
\* C3 (as claimed): once the endpoint is resolved, every call that does not
\* return a Source returns Err("could not connect to provider").
C3_OnlyConnectError ==
    (IsSome(rpc_url) /\ Ended /\ result.tag # "Ok") =>
        (pc = "returned" /\ result = ErrConnect)

C5_PanicWithoutEndpoint ==
    NoEndpoint => (pc = "panicked" /\ panic_msg = Some(NoRpcMsg))

\* ----------------------------------------------------------------- C6 ----
\* C6 (as claimed): a resolved string that does not begin with "http://" or
\* "https://" is returned with "http://" in front, one that does is
\* returned unchanged, and the client is constructed against that URL.
C6_SchemeNormalized ==
    IsSome(rpc_url) =>
        LET s == IF IsSome(args.rpc) THEN args.rpc.val ELSE LastResolution.env.val
        IN  /\ rpc_url.val = IF StartsWith(s, HttpScheme) \/ StartsWith(s, HttpsScheme)
                             THEN s
                             ELSE HttpScheme \o s
            /\ IsSome(provider) => provider.val.url = rpc_url.val

\* ----------------------------------------------------------------- C7 ----
\* C7: with args.rpc = Some(u) any two resolutions give the same URL
\* whatever ETH_RPC_URL was at each, and none exits; with args.rpc None two
\* resolutions under the same ETH_RPC_URL give the same outcome.
C7_ExplicitWins ==
    \A i, j \in 1..Len(resolved_log) :
        /\ IsSome(args.rpc) =>
              /\ resolved_log[i].out.tag = "Url"
              /\ resolved_log[i].out = resolved_log[j].out
        /\ resolved_log[i].env = resolved_log[j].env =>
              resolved_log[i].out = resolved_log[j].out

C7_Witness ==
    /\ Len(resolved_log) = 2
    /\ IsSome(args.rpc)
    /\ IsSome(resolved_log[1].env)
    /\ resolved_log[2].env = None
    /\ resolved_log[1].out = resolved_log[2].out

\* ----------------------------------------------------------------- C8 ----
\* C8 (as claimed): when the endpoint is reachable (the client was built
\* and the chain-id query answered) the call succeeds and the Source's
\* chain_id is the reported chain id; chain_id is set only from a reply.
C8_ReachableSucceeds ==
    /\ (chain_reply.tag = "Ok" /\ Ended) =>
          /\ ReturnedOk
          /\ [lo |-> result.source.chain_id, hi |-> 0] = chain_reply.val
    /\ IsSome(chain_id) => chain_reply.tag = "Ok"

\* ----------------------------------------------------------------- C9 ----
\* C9: a returned Source has max_concurrent_chunks = K for Some(K) and 3
\* for None, and inner_request_size = args.inner_request_size, for every
\* combination of requests_per_second and max_concurrent_requests.
C9_Passthrough ==
    result.tag = "Ok" =>
        /\ result.source.max_concurrent_chunks =
              IF IsSome(args.max_concurrent_chunks)
              THEN args.max_concurrent_chunks.val
              ELSE 3
        /\ result.source.inner_request_size = args.inner_request_size

C9_Witness ==
    /\ ReturnedOk
    /\ args.max_concurrent_chunks = None
    /\ result.source.max_concurrent_chunks = 3
    /\ args.max_concurrent_requests = Some(1)
    /\ args.requests_per_second = Some(0)

\* ---------------------------------------------------------------- C10 ----
\* What each state of a call must satisfy: at most one chain-id query, and
\* only with a client; the rate limiter only with a chain id, the semaphore
\* only after the rate limiter step; a Source only when everything is built;
\* a failed call built neither rate limiter nor semaphore and exposes no
\* Source.
C10_StateOk ==
    /\ queries <= 1
    /\ clients <= 1
    /\ queries = 1 => IsSome(provider)
    /\ IsSome(provider) => IsSome(rpc_url)
    /\ IsSome(chain_id) => queries = 1
    /\ rate_limiter # Unset => IsSome(chain_id)
    /\ semaphore # Unset => (IsSome(chain_id) /\ rate_limiter # Unset)
    /\ result.tag = "Ok" =>
          (pc = "returned" /\ IsSome(chain_id) /\ rate_limiter # Unset /\ IsSome(semaphore))
    /\ Failed =>
          (rate_limiter = Unset /\ semaphore = Unset /\ result.tag # "Ok")

\* The steps a call may take: each stage is followed by the next one or by
\* the end of the call, and only a new call starts over.
C10_StepOk ==
    pc' # pc =>
        \/ pc \in {"idle", "returned"} /\ pc' = "parse_rpc_url" /\ calls' = calls + 1
        \/ pc = "parse_rpc_url" /\ pc' \in {"new_client", "exited"}
        \/ pc = "new_client" /\ pc' = "get_chainid"
        \/ pc = "new_client" /\ pc' = "returned" /\ result'.tag = "Err"
        \/ pc = "get_chainid" /\ pc' = "rate_limiter"
        \/ pc = "get_chainid" /\ pc' = "returned" /\ result'.tag = "Err"
        \/ pc = "get_chainid" /\ pc' = "panicked"
        \/ pc = "rate_limiter" /\ pc' = "concurrency"
        \/ pc = "concurrency" /\ pc' = "semaphore"
        \/ pc = "semaphore" /\ pc' = "assemble"
        \/ pc = "assemble" /\ pc' = "returned" /\ result'.tag = "Ok"

====
